---- MODULE Spec2Model ----
(***************************************************************************)
(* A model of train_classification.py: the training loop train(), the      *)
(* validation pass evaluate() and the batch function                       *)
(* ClassificationBatchFunction.                                            *)
(*                                                                         *)
(* Floating-point values are modelled as exact fractions <<n, d>> (d > 0,  *)
(* lowest terms); NaN is the pair <<0, 0>>.  Rounding is not modelled.     *)
(* The macro-F1 accumulators (train_f1, logging_f1) are handled by the     *)
(* code exactly like the accuracy accumulators and are left out.           *)
(***************************************************************************)
EXTENDS Integers, Sequences, FiniteSets, TLC

\* ------------------------------------------------------------------ bounds
MaxGradAccu == 2        \* gradient_accumulation_steps ranges over 1..MaxGradAccu
MaxBatches == 4         \* len(tr_loader) ranges over 1..MaxBatches
MaxEpochs == 2          \* args.epochs ranges over 0..MaxEpochs
MaxLoggingStep == 2     \* args.logging_step ranges over 1..MaxLoggingStep
MaxRuns == 2            \* train() is run at most MaxRuns times on one directory
MaxDevBatches == 1      \* len(dev_loader) ranges over 1..MaxDevBatches
MaxEvalBatches == 3     \* len(dev_loader) where evaluate() is taken batch by batch
MaxLen == 4             \* the max_len of a batch function ranges over 1..MaxLen
MaxTokens == 2          \* a sample holds 0..MaxTokens tokens
MaxBatchSize == 2       \* a batch holds 1..MaxBatchSize samples
MaxCalls == 2           \* collate_fn is called up to MaxCalls times on the same batch

\* --------------------------------------------------------------- fractions
NaN == <<0, 0>>

IsNaN(x) == x[2] = 0

Rat(n) == <<n, 1>>

RECURSIVE Gcd(_, _)
Gcd(a, b) == IF b = 0 THEN a ELSE Gcd(b, a % b)

Norm(n, d) == LET g == Gcd(IF n < 0 THEN -n ELSE n, d) IN <<n \div g, d \div g>>

RAdd(x, y) == IF IsNaN(x) \/ IsNaN(y) THEN NaN
              ELSE Norm(x[1] * y[2] + y[1] * x[2], x[2] * y[2])

RSub(x, y) == IF IsNaN(x) \/ IsNaN(y) THEN NaN
              ELSE Norm(x[1] * y[2] - y[1] * x[2], x[2] * y[2])

\* x / k for an integer k > 0
RDiv(x, k) == IF IsNaN(x) THEN NaN ELSE Norm(x[1], x[2] * k)

\* x < y as Python compares floats: false as soon as one side is NaN
RLess(x, y) ==
    /\ ~IsNaN(x)
    /\ ~IsNaN(y)
    /\ LET fx == x[1] \div x[2]
           fy == y[1] \div y[2]
       IN \/ fx < fy
          \/ fx = fy /\ (x[1] % x[2]) * y[2] < (y[1] % y[2]) * x[2]

RECURSIVE RSum(_)
RSum(s) == IF s = <<>> THEN Rat(0) ELSE RAdd(Head(s), RSum(Tail(s)))

\* ------------------------------------------------------------------- state
VARIABLES
    args,           \* the configuration: gradient_accumulation_steps, epochs, logging_step
    n_batches,      \* len(tr_loader)
    dev_loader,     \* the label batches of the validation loader
    run,            \* which run of train() on this checkpoint directory
    pc,             \* position of the run in train()
    epoch,          \* loop variable of line 162
    step,           \* loop variable of line 167
    global_step,
    train_loss, train_acc,
    logging_loss, logging_acc,
    best_val_loss, best_val_acc,
    grads,          \* backward passes accumulated in the gradients since the last zero_grad
    update_ops,     \* the calls of the current (or last) update block, lines 222-233, in order
    optim_steps,    \* optimizer.step() calls of this run
    sched_steps,    \* scheduler.step() calls of this run
    log_records,    \* training log records emitted (line 211) carrying the current global_step + 1
    last_log,       \* the last training log record emitted (line 211) in the current epoch
    epoch_losses,   \* the micro-batch losses seen in the current epoch
    epoch_accs,     \* the micro-batch accuracies seen in the current epoch
    report,         \* what lines 242-247 logged for the epoch that has just finished
    timeline,       \* the steps under which writer.add_scalars recorded (lines 249-254)
    val_history,    \* <<val_loss, val_acc>> of every finished epoch of this run
    ckpt,           \* best_model.bin / training_args.bin in save_path
    prev_ckpt,      \* the checkpoint the previous run left behind
    prev_history,   \* val_history of the previous run
    results,        \* the rows of model_saved/results.csv
    evaluation,     \* the locals of the running evaluate() call, and what it returned
    collate_fn,     \* a ClassificationBatchFunction: max_len, pad_idx, cls_idx, sep_idx
    batch,          \* the samples <<tokens, label>> handed to collate_fn
    out,            \* what collate_fn returned for batch: tokens, masks, label
    calls           \* how many times collate_fn has been called on batch

vars == <<args, n_batches, dev_loader, run, pc, epoch, step, global_step, train_loss, train_acc,
          logging_loss, logging_acc, best_val_loss, best_val_acc, grads, update_ops,
          optim_steps, sched_steps, log_records, last_log, epoch_losses, epoch_accs,
          report, timeline, val_history, ckpt, prev_ckpt, prev_history, results, evaluation,
          collate_fn, batch, out, calls>>

collate_vars == <<collate_fn, batch, out, calls>>

\* a local variable of train() that no assignment has bound yet
Unassigned == <<>>

\* line 158
InitBestValLoss == 1000000000

grad_accu == args.gradient_accumulation_steps

\* line 128
t_total == (n_batches \div grad_accu) * args.epochs

\* what the model returns for a training micro-batch: its loss and its accuracy
TrainOutcomes == {[loss |-> Rat(1), acc |-> Rat(1)], [loss |-> Rat(2), acc |-> <<1, 2>>]}

\* ---------------------------------------------------------------- evaluate
\* the label batches of a validation loader of m batches (drop_last=False,
\* line 120: every batch is full but possibly the last one)
DevLabelBatches(m) ==
    {[i \in 1..m |-> IF i < m THEN <<0, 1>> ELSE last] : last \in {<<0, 1>>, <<1>>}}

OutputKinds == {"right", "lucky", "wrong", "nan"}

\* what the model returns on a batch with labels y (lines 298-299): a loss
\* and one prediction per sample
DevOutput(y, kind) ==
    [loss |-> CASE kind = "right" -> Rat(1)
                [] kind = "nan" -> NaN
                [] OTHER -> Rat(3),
     y_hat |-> IF kind \in {"right", "lucky"} THEN y ELSE [i \in 1..Len(y) |-> 0]]

\* the outputs of the model over the batches of a loader, in loader order
DevRuns(loader) ==
    {[i \in 1..Len(loader) |-> DevOutput(loader[i], k[i])] :
        k \in [1..Len(loader) -> OutputKinds]}

RECURSIVE Concat(_)
Concat(ss) == IF ss = <<>> THEN <<>> ELSE Head(ss) \o Concat(Tail(ss))

\* the accuracy entry of classification_report (lines 305-311)
Accuracy(ys, y_hats) ==
    Norm(Cardinality({i \in 1..Len(ys) : ys[i] = y_hats[i]}), Len(ys))

\* lines 282-323; outs[i] is the model's output on batch i of the loader
evaluate(loader, outs) ==
    LET total_y == Concat(loader)
        total_y_hat == Concat([i \in 1..Len(outs) |-> outs[i].y_hat])
        val_step == Len(loader) - 1
        val_loss == RSum([i \in 1..Len(outs) |-> outs[i].loss])
    IN [val_loss |-> RDiv(val_loss, val_step + 1),
        val_acc |-> Accuracy(total_y, total_y_hat)]

\* lines 282-284, with the iterator of line 286 (iter: batches handed out),
\* the outputs the model gave and the batches visited so far; val_step is
\* bound by the loop
EvalLocals ==
    [val_loss |-> Rat(0), total_y |-> <<>>, total_y_hat |-> <<>>, val_step |-> Unassigned,
     iter |-> 0, outs |-> <<>>, visited |-> <<>>, returned |-> {}]

\* ------------------------------------------- ClassificationBatchFunction
\* cls_idx / sep_idx not given to __init__
None == -1

Tokens == {5, 6}

Labels == {0, 1}

Min(a, b) == IF a < b THEN a ELSE b

Max(S) == CHOOSE m \in S : \A x \in S : x <= m

\* lines 32-36
ClassificationBatchFunction(max_len, pad_idx, cls_idx, sep_idx) ==
    [max_len |-> max_len,
     pad_idx |-> pad_idx,
     cls_idx |-> IF cls_idx # None THEN cls_idx ELSE pad_idx,
     sep_idx |-> IF sep_idx # None THEN sep_idx ELSE pad_idx]

\* pad() keeping the first max_len elements of a long sample
padHead(self, sample) ==
    LET diff == self.max_len - Len(sample)
    IN IF diff > 0
       THEN sample \o [i \in 1..diff |-> self.pad_idx]
       ELSE SubSeq(sample, 1, self.max_len)

\* pad() with the padding put in front of the sample
padLeft(self, sample) ==
    LET diff == self.max_len - Len(sample)
    IN IF diff > 0
       THEN [i \in 1..diff |-> self.pad_idx] \o sample
       ELSE SubSeq(sample, Len(sample) - self.max_len + 1, Len(sample))

\* lines 50-56; sample[-n:] is the last n elements of sample
pad(self, sample) ==
    LET diff == self.max_len - Len(sample)
    IN IF diff > 0
       THEN sample \o [i \in 1..diff |-> self.pad_idx]
       ELSE SubSeq(sample, Len(sample) - self.max_len + 1, Len(sample))

\* the list object passed to pad(), as it is after the call: line 53 extends
\* it in place (+=), line 55 binds the local name to a new list
padArg(self, sample) ==
    LET diff == self.max_len - Len(sample)
    IN IF diff > 0
       THEN sample \o [i \in 1..diff |-> self.pad_idx]
       ELSE sample

\* the markers are inserted into the list t of the batch itself
PadArgumentInPlace(self, t) ==
    [obj |-> "input", value |-> <<self.cls_idx>> \o t \o <<self.sep_idx>>]

\* line 44: [cls] + t + [sep] is a new list, which pad() is called with
PadArgument(self, t) ==
    [obj |-> "new", value |-> <<self.cls_idx>> \o t \o <<self.sep_idx>>]

\* the list t of the batch after __call__ has handled it (lines 43-44)
inputAfter(self, t) ==
    LET arg == PadArgument(self, t)
    IN IF arg.obj = "input" THEN padArg(self, arg.value) ELSE t

\* lines 38-48; max_len is computed at line 42 and not read afterwards
call(self, b) ==
    LET tokens == [i \in 1..Len(b) |-> b[i][1]]
        label == [i \in 1..Len(b) |-> b[i][2]]
        max_len == Min(self.max_len, Max({Len(tokens[i]) : i \in 1..Len(b)}))
        rows == [i \in 1..Len(b) |->
                    pad(self, PadArgument(self, tokens[i]).value)]
        masks == [i \in 1..Len(b) |->
                    [j \in 1..Len(rows[i]) |->
                        IF rows[i][j] = self.pad_idx THEN self.pad_idx ELSE 1]]
    IN [tokens |-> rows, masks |-> masks, label |-> label]

\* ------------------------------------------------------------------- train
\* the locals of train() before line 156 binds them
Fresh ==
    /\ pc = "start"
    /\ epoch = 0
    /\ step = 0
    /\ global_step = 0
    /\ train_loss = Rat(0)
    /\ train_acc = Rat(0)
    /\ logging_loss = Rat(0)
    /\ logging_acc = Rat(0)
    /\ best_val_loss = Unassigned
    /\ best_val_acc = Unassigned
    /\ grads = 0
    /\ update_ops = <<>>
    /\ optim_steps = 0
    /\ sched_steps = 0
    /\ log_records = 0
    /\ last_log = {}
    /\ epoch_losses = {}
    /\ epoch_accs = {}
    /\ report = {}
    /\ timeline = <<>>
    /\ val_history = <<>>

Init ==
    /\ args \in [gradient_accumulation_steps : 1..MaxGradAccu,
                 epochs : 0..MaxEpochs,
                 logging_step : 1..MaxLoggingStep]
    /\ n_batches \in 1..MaxBatches
    /\ dev_loader \in UNION {DevLabelBatches(m) : m \in 1..MaxDevBatches}
    /\ run = 1
    /\ ckpt = {}
    /\ prev_ckpt = {}
    /\ prev_history = <<>>
    /\ results = <<>>
    /\ evaluation = EvalLocals
    /\ Fresh
    /\ collate_fn = ClassificationBatchFunction(MaxLen, 0, 1, 2)
    /\ batch = <<>>
    /\ out = {}
    /\ calls = 0

\* lines 156-159
Setup ==
    /\ pc = "start"
    /\ grads' = 0
    /\ best_val_loss' = Rat(InitBestValLoss)
    /\ global_step' = 0
    /\ pc' = "epoch"
    /\ UNCHANGED <<collate_vars, evaluation,
                   args, n_batches, dev_loader, run, epoch, step, train_loss, train_acc,
                   logging_loss, logging_acc, best_val_acc, update_ops, optim_steps,
                   sched_steps, log_records, last_log, epoch_losses, epoch_accs, report,
                   timeline, val_history, ckpt, prev_ckpt, prev_history, results>>

\* lines 162-165: the head of the epoch loop
EpochBegin ==
    /\ pc = "epoch"
    /\ IF epoch < args.epochs
       THEN /\ train_loss' = Rat(0)
            /\ train_acc' = Rat(0)
            /\ logging_loss' = Rat(0)
            /\ logging_acc' = Rat(0)
            /\ step' = 0
            /\ epoch_losses' = {}
            /\ epoch_accs' = {}
            /\ last_log' = {}
            /\ report' = {}
            /\ pc' = "batch"
       ELSE /\ pc' = "results"
            /\ UNCHANGED <<train_loss, train_acc, logging_loss, logging_acc, step,
                           epoch_losses, epoch_accs, last_log, report>>
    /\ UNCHANGED <<collate_vars, evaluation,
                   args, n_batches, dev_loader, run, epoch, global_step, best_val_loss,
                   best_val_acc, grads, update_ops, optim_steps, sched_steps, log_records,
                   timeline, val_history, ckpt, prev_ckpt, prev_history, results>>

\* lines 190-194: a measure of a micro-batch as it is accumulated
Scaled(x) == IF grad_accu > 1 THEN RDiv(x, grad_accu) ELSE x

\* line 206
LoggingDue == (global_step + 1) % args.logging_step = 0

\* the update falls on the first micro-batch of each group
UpdateDueOnFirst == step % grad_accu = 0

\* line 222
UpdateDue == (step + 1) % grad_accu = 0

\* line 167: the loop over tr_loader moves on, or ends and leaves step at its last value
NextBatch ==
    IF step + 1 < n_batches
    THEN step' = step + 1 /\ pc' = "batch"
    ELSE step' = step /\ pc' = "epoch_end"

\* lines 168-222: one micro-batch, up to the test that opens the update block
MicroBatch ==
    /\ pc = "batch"
    /\ \E o \in TrainOutcomes :
        LET loss == Scaled(o.loss)
            batch_acc == Scaled(o.acc)
            new_loss == RAdd(train_loss, loss)
            new_acc == RAdd(train_acc, batch_acc)
        IN /\ grads' = grads + 1
           /\ train_loss' = new_loss
           /\ train_acc' = new_acc
           /\ epoch_losses' = epoch_losses \cup {o.loss}
           /\ epoch_accs' = epoch_accs \cup {o.acc}
           /\ IF LoggingDue
              THEN /\ last_log' = {[step |-> global_step + 1,
                                    loss |-> RDiv(RSub(new_loss, logging_loss), args.logging_step),
                                    acc |-> RDiv(RSub(new_acc, logging_acc), args.logging_step)]}
                   /\ logging_loss' = new_loss
                   /\ logging_acc' = new_acc
                   /\ log_records' = log_records + 1
              ELSE UNCHANGED <<last_log, logging_loss, logging_acc, log_records>>
    /\ IF UpdateDue
       THEN pc' = "clip" /\ step' = step
       ELSE NextBatch
    /\ UNCHANGED <<collate_vars, evaluation,
                   args, n_batches, dev_loader, run, epoch, global_step, best_val_loss,
                   best_val_acc, update_ops, optim_steps, sched_steps, report, timeline,
                   val_history, ckpt, prev_ckpt, prev_history, results>>

\* lines 223-228: torch.nn.utils.clip_grad_norm_
ClipGradNorm ==
    /\ pc = "clip"
    /\ update_ops' = <<"clip_grad_norm_">>
    /\ pc' = "scheduler"
    /\ UNCHANGED <<collate_vars, evaluation,
                   args, n_batches, dev_loader, run, epoch, step, global_step, train_loss,
                   train_acc, logging_loss, logging_acc, best_val_loss, best_val_acc, grads,
                   optim_steps, sched_steps, log_records, last_log, epoch_losses, epoch_accs,
                   report, timeline, val_history, ckpt, prev_ckpt, prev_history, results>>

\* line 230: scheduler.step()
SchedulerStep ==
    /\ pc = "scheduler"
    /\ sched_steps' = sched_steps + 1
    /\ update_ops' = Append(update_ops, "scheduler.step")
    /\ pc' = "optimizer"
    /\ UNCHANGED <<collate_vars, evaluation,
                   args, n_batches, dev_loader, run, epoch, step, global_step, train_loss,
                   train_acc, logging_loss, logging_acc, best_val_loss, best_val_acc, grads,
                   optim_steps, log_records, last_log, epoch_losses, epoch_accs,
                   report, timeline, val_history, ckpt, prev_ckpt, prev_history, results>>

\* line 231: optimizer.step(), applied to the gradients accumulated so far
OptimizerStep ==
    /\ pc = "optimizer"
    /\ optim_steps' = optim_steps + 1
    /\ update_ops' = Append(update_ops, "optimizer.step")
    /\ pc' = "zero_grad"
    /\ UNCHANGED <<collate_vars, evaluation,
                   args, n_batches, dev_loader, run, epoch, step, global_step, train_loss,
                   train_acc, logging_loss, logging_acc, best_val_loss, best_val_acc, grads,
                   sched_steps, log_records, last_log, epoch_losses, epoch_accs,
                   report, timeline, val_history, ckpt, prev_ckpt, prev_history, results>>

\* line 232: model.zero_grad()
ZeroGrad ==
    /\ pc = "zero_grad"
    /\ grads' = 0
    /\ update_ops' = Append(update_ops, "zero_grad")
    /\ pc' = "global_step"
    /\ UNCHANGED <<collate_vars, evaluation,
                   args, n_batches, dev_loader, run, epoch, step, global_step, train_loss,
                   train_acc, logging_loss, logging_acc, best_val_loss, best_val_acc,
                   optim_steps, sched_steps, log_records, last_log, epoch_losses, epoch_accs,
                   report, timeline, val_history, ckpt, prev_ckpt, prev_history, results>>

\* a slip: the counter advanced by the micro-batches of the window
StepAfterUpdatePerMicroBatch == global_step + grad_accu

\* line 233: global_step += 1
StepAfterUpdate == global_step + 1

\* line 233, then on to the next micro-batch
IncGlobalStep ==
    /\ pc = "global_step"
    /\ global_step' = StepAfterUpdate
    /\ log_records' = 0
    /\ update_ops' = Append(update_ops, "global_step")
    /\ NextBatch
    /\ UNCHANGED <<collate_vars, evaluation,
                   args, n_batches, dev_loader, run, epoch, train_loss,
                   train_acc, logging_loss, logging_acc, best_val_loss, best_val_acc, grads,
                   optim_steps, sched_steps, last_log, epoch_losses, epoch_accs,
                   report, timeline, val_history, ckpt, prev_ckpt, prev_history, results>>

\* a slip: <= in place of <
ImprovedOrEqual(val_loss) == RLess(val_loss, best_val_loss) \/ val_loss = best_val_loss

\* line 256
Improved(val_loss) == RLess(val_loss, best_val_loss)

\* lines 235-265: the end of an epoch
EpochEnd ==
    /\ pc = "epoch_end"
    /\ \E outs \in DevRuns(dev_loader) :
        LET ev == evaluate(dev_loader, outs)
            mean_loss == RDiv(train_loss, step + 1)
            mean_acc == RDiv(train_acc, step + 1)
        IN /\ report' = {[step |-> global_step + 1,
                          train_loss |-> mean_loss, train_acc |-> mean_acc,
                          val_loss |-> ev.val_loss, val_acc |-> ev.val_acc]}
           /\ timeline' = Append(timeline, global_step + 1)
           /\ val_history' = Append(val_history, <<ev.val_loss, ev.val_acc>>)
           /\ IF Improved(ev.val_loss)
              THEN /\ ckpt' = {[run |-> run, epoch |-> epoch, global_step |-> global_step,
                                val_loss |-> ev.val_loss, val_acc |-> ev.val_acc]}
                   /\ best_val_loss' = ev.val_loss
                   /\ best_val_acc' = ev.val_acc
              ELSE UNCHANGED <<ckpt, best_val_loss, best_val_acc>>
    /\ train_loss' = Rat(0)
    /\ train_acc' = Rat(0)
    /\ epoch' = epoch + 1
    /\ pc' = "epoch"
    /\ UNCHANGED <<collate_vars, evaluation,
                   args, n_batches, dev_loader, run, step, global_step, logging_loss,
                   logging_acc, grads, update_ops, optim_steps, sched_steps, log_records,
                   last_log, epoch_losses, epoch_accs, prev_ckpt, prev_history, results>>

\* lines 268-273: best_val_acc is read at line 270; unbound, it raises
\* UnboundLocalError and result_writer.update is never called
WriteResults ==
    /\ pc = "results"
    /\ IF best_val_acc = Unassigned
       THEN pc' = "error" /\ UNCHANGED results
       ELSE /\ results' = Append(results, [run |-> run, val_loss |-> best_val_loss,
                                           val_acc |-> best_val_acc])
            /\ pc' = "done"
    /\ UNCHANGED <<collate_vars, evaluation,
                   args, n_batches, dev_loader, run, epoch, step, global_step, train_loss,
                   train_acc, logging_loss, logging_acc, best_val_loss, best_val_acc, grads,
                   update_ops, optim_steps, sched_steps, log_records, last_log, epoch_losses,
                   epoch_accs, report, timeline, val_history, ckpt, prev_ckpt, prev_history>>

\* train() is started again with the same configuration: save_path (lines
\* 146-151) is the same directory, results.csv the same file
Rerun ==
    /\ pc \in {"done", "error"}
    /\ run < MaxRuns
    /\ run' = run + 1
    /\ prev_ckpt' = ckpt
    /\ prev_history' = val_history
    /\ pc' = "start"
    /\ epoch' = 0
    /\ step' = 0
    /\ global_step' = 0
    /\ train_loss' = Rat(0)
    /\ train_acc' = Rat(0)
    /\ logging_loss' = Rat(0)
    /\ logging_acc' = Rat(0)
    /\ best_val_loss' = Unassigned
    /\ best_val_acc' = Unassigned
    /\ grads' = 0
    /\ update_ops' = <<>>
    /\ optim_steps' = 0
    /\ sched_steps' = 0
    /\ log_records' = 0
    /\ last_log' = {}
    /\ epoch_losses' = {}
    /\ epoch_accs' = {}
    /\ report' = {}
    /\ timeline' = <<>>
    /\ val_history' = <<>>
    /\ UNCHANGED <<collate_vars, evaluation,
                   args, n_batches, dev_loader, ckpt, results>>

Next ==
    \/ Setup
    \/ EpochBegin
    \/ MicroBatch
    \/ ClipGradNorm
    \/ SchedulerStep
    \/ OptimizerStep
    \/ ZeroGrad
    \/ IncGlobalStep
    \/ EpochEnd
    \/ WriteResults

\* one run of train()
Spec == Init /\ [][Next]_vars

NextRerun ==
    \/ Next
    \/ Rerun

\* runs of train() one after the other on the same checkpoint directory
SpecRerun == Init /\ [][NextRerun]_vars

\* ------------------------------------- evaluate(), one batch at a time
\* line 321 divides by the number of samples seen
LossDivisorSamples == Len(evaluation.total_y)

\* line 321: val_step is the index enumerate() gave the last batch
LossDivisor == evaluation.val_step + 1

\* lines 235-240: the epoch means are taken, then evaluate() is entered
EpochMeans ==
    /\ pc = "epoch_end"
    /\ train_loss' = RDiv(train_loss, step + 1)
    /\ train_acc' = RDiv(train_acc, step + 1)
    /\ evaluation' = EvalLocals
    /\ pc' = "evaluate"
    /\ UNCHANGED <<collate_vars, args, n_batches, dev_loader, run, epoch, step, global_step,
                   logging_loss, logging_acc, best_val_loss, best_val_acc, grads, update_ops,
                   optim_steps, sched_steps, log_records, last_log, epoch_losses, epoch_accs,
                   report, timeline, val_history, ckpt, prev_ckpt, prev_history, results>>

\* the loop body calls loss.backward()
GradsAfterBackward(g) == g + 1

\* lines 297-302: the forward pass runs under torch.no_grad() and the loop
\* body calls no backward(); g: backward passes accumulated in the gradients
GradsAfterEvalBatch(g) == g

\* lines 286-302: one pass of the loop over the loader
EvalBatch ==
    /\ pc = "evaluate"
    /\ evaluation.iter < Len(dev_loader)
    /\ \E kind \in OutputKinds :
           LET val_step == evaluation.iter
               y_dev == dev_loader[val_step + 1]
               o == DevOutput(y_dev, kind)
           IN evaluation' = [evaluation EXCEPT
                                 !.iter = val_step + 1,
                                 !.val_step = val_step,
                                 !.total_y = @ \o y_dev,
                                 !.total_y_hat = @ \o o.y_hat,
                                 !.val_loss = RAdd(@, o.loss),
                                 !.outs = Append(@, o),
                                 !.visited = Append(@, val_step + 1)]
    /\ grads' = GradsAfterEvalBatch(grads)
    /\ UNCHANGED <<collate_vars, args, n_batches, dev_loader, run, pc, epoch, step, global_step,
                   train_loss, train_acc, logging_loss, logging_acc, best_val_loss,
                   best_val_acc, update_ops, optim_steps, sched_steps, log_records,
                   last_log, epoch_losses, epoch_accs, report, timeline, val_history, ckpt,
                   prev_ckpt, prev_history, results>>

\* lines 305-323: the loader is exhausted; metrics from the totals, then return
EvalReturn ==
    /\ pc = "evaluate"
    /\ evaluation.iter = Len(dev_loader)
    /\ evaluation' = [evaluation EXCEPT
                          !.returned = {[val_loss |-> RDiv(evaluation.val_loss, LossDivisor),
                                         val_acc |-> Accuracy(evaluation.total_y,
                                                              evaluation.total_y_hat)]}]
    /\ pc' = "evaluated"
    /\ UNCHANGED <<collate_vars, args, n_batches, dev_loader, run, epoch, step, global_step,
                   train_loss, train_acc, logging_loss, logging_acc, best_val_loss,
                   best_val_acc, grads, update_ops, optim_steps, sched_steps, log_records,
                   last_log, epoch_losses, epoch_accs, report, timeline, val_history, ckpt,
                   prev_ckpt, prev_history, results>>

\* train() with one epoch and a validation loader of up to MaxEvalBatches batches
InitEvaluate ==
    /\ args \in [gradient_accumulation_steps : 1..MaxGradAccu,
                 epochs : {1},
                 logging_step : 1..MaxLoggingStep]
    /\ n_batches \in 1..MaxBatches
    /\ dev_loader \in UNION {DevLabelBatches(m) : m \in 1..MaxEvalBatches}
    /\ run = 1
    /\ ckpt = {}
    /\ prev_ckpt = {}
    /\ prev_history = <<>>
    /\ results = <<>>
    /\ evaluation = EvalLocals
    /\ Fresh
    /\ collate_fn = ClassificationBatchFunction(MaxLen, 0, 1, 2)
    /\ batch = <<>>
    /\ out = {}
    /\ calls = 0

NextEvaluate ==
    \/ Setup
    \/ EpochBegin
    \/ MicroBatch
    \/ ClipGradNorm
    \/ SchedulerStep
    \/ OptimizerStep
    \/ ZeroGrad
    \/ IncGlobalStep
    \/ EpochMeans
    \/ EvalBatch
    \/ EvalReturn

\* the first epoch of train() up to the return of evaluate() at line 240,
\* with evaluate() taken batch by batch
SpecEvaluate == InitEvaluate /\ [][NextEvaluate]_vars

\* ------------------------------------------------- the batch function alone
TokenSeqs == UNION {[1..n -> Tokens] : n \in 0..MaxTokens}

Samples == TokenSeqs \X Labels

Batches == UNION {[1..n -> Samples] : n \in 1..MaxBatchSize}

train_vars == <<args, n_batches, dev_loader, run, pc, epoch, step, global_step, train_loss,
                train_acc, logging_loss, logging_acc, best_val_loss, best_val_acc, grads,
                update_ops, optim_steps, sched_steps, log_records, last_log, epoch_losses,
                epoch_accs, report, timeline, val_history, ckpt, prev_ckpt, prev_history,
                results, evaluation>>

\* a batch function as train() builds it (lines 100-101) and a batch a loader hands it
InitCollate ==
    /\ \E max_len \in 1..MaxLen, pad_idx \in {0, 3}, marks \in {<<1, 2>>, <<None, None>>} :
           collate_fn = ClassificationBatchFunction(max_len, pad_idx, marks[1], marks[2])
    /\ batch \in Batches
    /\ out = {}
    /\ calls = 0
    /\ args = [gradient_accumulation_steps |-> 1, epochs |-> 1, logging_step |-> 1]
    /\ n_batches = 1
    /\ dev_loader = <<<<1>>>>
    /\ run = 1
    /\ ckpt = {}
    /\ prev_ckpt = {}
    /\ prev_history = <<>>
    /\ results = <<>>
    /\ evaluation = EvalLocals
    /\ Fresh

\* the loader calls collate_fn(batch); neither __call__ nor pad() assigns
\* to an attribute of self
Collate ==
    /\ calls < MaxCalls
    /\ out' = {call(collate_fn, batch)}
    /\ batch' = [i \in 1..Len(batch) |-> <<inputAfter(collate_fn, batch[i][1]), batch[i][2]>>]
    /\ calls' = calls + 1
    /\ UNCHANGED <<collate_fn, train_vars>>

NextCollate == Collate

SpecCollate == InitCollate /\ [][NextCollate]_vars

\* ------------------------------------------------------------------ claims
IsPrefix(s, t) == Len(s) <= Len(t) /\ \A i \in 1..Len(s) : s[i] = t[i]

\* the validation loss of the epoch that has just ended (in the state after EpochEnd)
LastValLoss(h) == h[Len(h)][1]

\* C1: every optimizer.step() is applied to gradients accumulated from exactly
\* gradient_accumulation_steps backward passes since the last zero_grad, in
\* every epoch, whether or not len(tr_loader) is a multiple of it.
C1_StepSeesExactlyGBackwards == pc = "optimizer" => grads = grad_accu

\* C2: best_val_loss never increases over an epoch boundary; the checkpoint
\* is written at the end of an epoch exactly when that epoch's validation
\* loss is strictly less than the best before it; at every other step the
\* checkpoint, best_val_loss and best_val_acc stay as they are.
C2_CheckpointOnStrictImprovement ==
    [][/\ pc = "epoch_end" =>
            /\ best_val_loss' = best_val_loss \/ RLess(best_val_loss', best_val_loss)
            /\ (ckpt' # ckpt) <=> RLess(LastValLoss(val_history'), best_val_loss)
            /\ ~RLess(LastValLoss(val_history'), best_val_loss) =>
                   UNCHANGED <<ckpt, best_val_loss, best_val_acc>>
            /\ RLess(LastValLoss(val_history'), best_val_loss) =>
                   /\ best_val_loss' = LastValLoss(val_history')
                   /\ best_val_acc' = val_history'[Len(val_history')][2]
                   /\ \A c \in ckpt' : /\ c.val_loss = best_val_loss'
                                       /\ c.epoch = epoch
                                       /\ c.run = run
       /\ pc \notin {"epoch_end", "start"} => UNCHANGED <<ckpt, best_val_loss, best_val_acc>>
       /\ pc = "start" => UNCHANGED <<ckpt, best_val_acc>>]_vars

\* C2's case: a first epoch wrote the checkpoint and a second epoch, whose
\* validation loss was not less, has ended without touching it
C2_Witness ==
    /\ pc = "epoch"
    /\ epoch = 2
    /\ ~RLess(val_history[2][1], val_history[1][1])
    /\ ~IsNaN(val_history[2][1])
    /\ \E c \in ckpt : c.epoch = 0 /\ c.val_loss = val_history[1][1]

\* C3: in a second run with the same configuration the validation loss of
\* the stored checkpoint never increases: every write of the second run
\* stores a model whose validation loss is not greater than that of the
\* checkpoint the first run left (the claim says: strictly less).  Stated
\* for second runs that reproduce the validation losses of the first.
C3_RerunOnlyImproves ==
    [][(run > 1 /\ ckpt' # ckpt /\ IsPrefix(val_history', prev_history)) =>
           \A new \in ckpt' : \A old \in prev_ckpt : ~RLess(old.val_loss, new.val_loss)]_vars

\* C4: global_step never decreases, moves only by the increment of line 233
\* that closes an update (so not on a micro-batch that does not complete an
\* accumulation window, and not at an epoch boundary), and so counts the
\* optimizer updates.
C4_GlobalStepCountsUpdates ==
    /\ [](optim_steps = IF pc \in {"zero_grad", "global_step"}
                        THEN global_step + 1 ELSE global_step)
    /\ [][/\ global_step' >= global_step
          /\ global_step' # global_step =>
                 /\ global_step' = global_step + 1
                 /\ pc = "global_step"
                 /\ (step + 1) % grad_accu = 0]_vars

\* C4's case: with accumulation, in the second epoch, after three updates
C4_Witness ==
    /\ grad_accu = 2
    /\ epoch = 1
    /\ pc = "batch"
    /\ global_step = 3
    /\ optim_steps = 3

\* C5: the update block runs clip, optimizer step, scheduler step, zero_grad,
\* global-step increment, in this order.
C5_UpdateOrder ==
    IsPrefix(update_ops, <<"clip_grad_norm_", "optimizer.step", "scheduler.step",
                           "zero_grad", "global_step">>)

\* C6: with accumulation factor 2 and one epoch of 4 micro-batches of the
\* same loss L, every training log record (logging_step 1 or 2) reports L.
C6_LoggedLossIsL ==
    (/\ grad_accu = 2
     /\ n_batches = 4
     /\ args.epochs = 1
     /\ args.logging_step \in {1, 2}
     /\ Cardinality(epoch_losses) = 1) =>
        \A r \in last_log : r.loss \in epoch_losses

\* C7: one training log record, and only one, for each value of
\* global_step + 1 that is a multiple of logging_step.
C7_OneRecordPerLoggingStep ==
    /\ log_records <= 1
    /\ pc = "global_step" => log_records = IF LoggingDue THEN 1 ELSE 0

\* C8: when every micro-batch of the epoch has loss L and accuracy A, the
\* epoch means reported at the end of the epoch are L and A, whatever the
\* accumulation factor.
C8_EpochMeans ==
    \A r \in report :
        /\ Cardinality(epoch_losses) = 1 => r.train_loss \in epoch_losses
        /\ Cardinality(epoch_accs) = 1 => r.train_acc \in epoch_accs

\* C9: a run that has gone through its epochs (one at least) has appended exactly one row to
\* the results log, holding the least validation loss of the run and the
\* validation accuracy of an epoch that produced it; no row is appended
\* before the last epoch has ended.
C9_OneResultRow ==
    /\ pc \notin {"done", "error"} => results = <<>>
    /\ (pc \in {"done", "error"} /\ args.epochs >= 1) =>
           /\ Len(results) = 1
           /\ \E i \in 1..Len(val_history) :
                  /\ results[1].val_loss = val_history[i][1]
                  /\ results[1].val_acc = val_history[i][2]
                  /\ \A j \in 1..Len(val_history) :
                         ~RLess(val_history[j][1], val_history[i][1])

\* C10: every row of the token matrix has the effective length
\* min(max_len of the batch function, longest token sequence of the batch).
\* Stated for batches of non-empty samples.
C10_WidthIsEffectiveLength ==
    \A o \in out :
        LET lens == {Len(batch[i][1]) : i \in 1..Len(batch)}
            effective == Min(collate_fn.max_len, Max(lens))
        IN 0 \notin lens => \A i \in 1..Len(o.tokens) : Len(o.tokens[i]) = effective

\* C11: for every pad id, zero or not, the mask holds 1 exactly where the
\* token differs from the pad id and 0 wherever the token equals the pad id.
C11_MaskIsOneOffPadZeroOnPad ==
    \A o \in out :
        \A i \in 1..Len(o.tokens) :
            \A j \in 1..Len(o.tokens[i]) :
                o.masks[i][j] = IF o.tokens[i][j] # collate_fn.pad_idx THEN 1 ELSE 0

\* the row of sample i with its two markers, before pad() (line 44)
Marked(i) == <<collate_fn.cls_idx>> \o batch[i][1] \o <<collate_fn.sep_idx>>

Repeat(x, n) == [k \in 1..n |-> x]

EffectiveLength ==
    Min(collate_fn.max_len, Max({Len(batch[i][1]) : i \in 1..Len(batch)}))

\* C13: every token sequence longer than the effective length gives a row of
\* exactly the effective length, made of the last elements of the marked
\* sequence, so that its final element is the boundary-end marker.
C13_LongRowsKeepTail ==
    \A o \in out :
        \A i \in 1..Len(batch) :
            Len(batch[i][1]) > EffectiveLength =>
                /\ Len(o.tokens[i]) = EffectiveLength
                /\ o.tokens[i][Len(o.tokens[i])] = collate_fn.sep_idx
                /\ \A j \in 1..EffectiveLength :
                       o.tokens[i][j] = Marked(i)[Len(Marked(i)) - EffectiveLength + j]

\* a collated sequence longer than the effective length, with distinct markers
C13_Witness ==
    /\ out # {}
    /\ collate_fn.cls_idx # collate_fn.sep_idx
    /\ \E i \in 1..Len(batch) : Len(batch[i][1]) > EffectiveLength

\* C14: evaluate() visits every batch of the loader once, in loader order;
\* no metric is computed before the labels and predictions of all samples
\* of all batches are accumulated; the loss it returns is the sum of the
\* per-batch losses divided by the number of batches.
C14_EvaluateBatchMean ==
    LET m == Len(dev_loader)
        outs == evaluation.outs
        losses == [i \in 1..Len(outs) |-> outs[i].loss]
        y_hats == [i \in 1..Len(outs) |-> outs[i].y_hat]
    IN /\ evaluation.visited = [i \in 1..evaluation.iter |-> i]
       /\ evaluation.iter < m => evaluation.returned = {}
       /\ \A r \in evaluation.returned :
              /\ evaluation.visited = [i \in 1..m |-> i]
              /\ evaluation.total_y = Concat(dev_loader)
              /\ evaluation.total_y_hat = Concat(y_hats)
              /\ r.val_loss = RDiv(RSum(losses), m)
              /\ r.val_acc = Accuracy(Concat(dev_loader), Concat(y_hats))
              /\ r = evaluate(dev_loader, outs)

\* evaluate() has returned from a loader of three batches whose last batch is
\* smaller than the others, with different losses on its batches
C14_Witness ==
    /\ pc = "evaluated"
    /\ dev_loader = <<<<0, 1>>, <<0, 1>>, <<1>>>>
    /\ evaluation.outs[1].loss = Rat(1)
    /\ evaluation.outs[2].loss = Rat(3)
    /\ evaluation.outs[3].loss = Rat(3)
    /\ evaluation.returned # {}

\* C15: a call of the batch function changes neither the token sequences of
\* the batch nor the configuration of the batch function, and a further call
\* on the same batch returns the same tokens, masks and labels as the call
\* before it.
C15_CollateTwiceSame ==
    [][calls' # calls =>
           /\ batch' = batch
           /\ collate_fn' = collate_fn
           /\ calls >= 1 => out' = out]_vars

\* the second call has returned, on a batch with a row that pad() extends
C15_Witness ==
    /\ calls = 2
    /\ out # {}
    /\ \E i \in 1..Len(batch) : Len(batch[i][1]) + 2 < collate_fn.max_len

\* C16: the metrics of an epoch are recorded in the timeline under the value
\* global_step has at the end of that epoch, the number of optimizer updates
\* completed so far (read in the state right after the epoch end, where
\* global_step is still what it was when the record was written).
C16_TimelineKeyIsGlobalStep ==
    (pc = "epoch" /\ timeline # <<>>) =>
        /\ timeline[Len(timeline)] = global_step
        /\ timeline[Len(timeline)] = optim_steps

\* C17: the optimizer.step() calls, the scheduler.step() calls and
\* global_step never exceed t_total = floor(N / G) * epochs, and all three
\* equal t_total once the epoch loop of train() is over.
C17_StepsReachTotal ==
    /\ global_step <= t_total
    /\ optim_steps <= t_total
    /\ sched_steps <= t_total
    /\ pc \in {"results", "done", "error"} =>
           /\ global_step = t_total
           /\ optim_steps = t_total
           /\ sched_steps = t_total

\* a finished run whose batches are not a multiple of gradient_accumulation_steps
C17_Witness ==
    /\ pc = "done"
    /\ grad_accu = 2
    /\ n_batches = 3
    /\ args.epochs = 2
    /\ global_step = 2
    /\ optim_steps = 2
    /\ sched_steps = 2

\* C18: train() reaches the recording of results (line 268) only after a
\* checkpoint write has assigned best_val_acc, whatever the validation
\* losses of its epochs. Stated for runs of one epoch at least.
C18_BestValAccAssigned ==
    (pc = "results" /\ args.epochs >= 1) =>
        /\ best_val_acc # Unassigned
        /\ ckpt # {}

\* C19: every row of the token matrix begins with the boundary-start marker,
\* also when the marked sequence is longer than max_len and is truncated.
\* Stated for non-empty token sequences.
C19_RowsBeginWithStartMarker ==
    \A o \in out :
        \A i \in 1..Len(batch) :
            Len(batch[i][1]) >= 1 => o.tokens[i][1] = collate_fn.cls_idx

\* C20: between the call of evaluate() and its return, global_step, the
\* gradients accumulated and not yet applied, the running training sums,
\* best_val_loss and the counts of optimizer and scheduler steps keep the
\* values they had at the call.
C20_EvaluateLeavesTrainingState ==
    [][pc = "evaluate" =>
           UNCHANGED <<global_step, grads, train_loss, train_acc, logging_loss, logging_acc,
                       best_val_loss, best_val_acc, optim_steps, sched_steps, update_ops>>]_vars

\* evaluate() has returned from a loader of several batches, called with
\* gradients of a micro-batch accumulated and not yet applied
C20_Witness ==
    /\ pc = "evaluated"
    /\ Len(dev_loader) >= 2
    /\ grads = 1
    /\ global_step = 1
    /\ evaluation.returned # {}

====
